---- MODULE Spec2Model ----
(***************************************************************************)
(* Run loop, event bus, event log and HTTP adapter of vibe-coding-iterator. *)
(*                                                                         *)
(* One step of the run loop is the code between two await points of        *)
(* RunLoop.start / RunLoop.step_forever; a log append and the publish that *)
(* follows it are separate steps.  Lines 33-39 of run_loop.py hold no      *)
(* await and are one step.  Other tasks (pause/resume callers, the control *)
(* listener, the HTTP handlers, bus consumers) interleave between steps.   *)
(***************************************************************************)
EXTENDS Integers, Sequences, FiniteSets, TLC

\* ---------------------------------------------------------------- bounds
MaxIter == 2          \* iterations explored per run
MaxCmds == 1          \* POST /api/control requests explored
PausedTickCap == 2    \* saturation of the consecutive-paused-tick counter
MaxStarts == 2        \* calls of start() on one RunLoop that append run.started
MaxControl == 2       \* control events published on engine.bus
MaxOrdinal == 3       \* ordinals passed to deterministic_patch by a direct caller
MaxTries == 3         \* largest max_tries passed to _retry
MaxPrompts == 2       \* POST /api/prompt requests explored
MaxMessages == 6      \* length of Conversation._messages up to which ask() is explored

\* ------------------------------------------------------------ value sets
None == "None"
RunIds == {"r1", "r2"}            \* values mk_run_id can return
EngineSubs == {"ctl"}             \* consumers of engine.bus.subscribe(): the control listener
Observers == {"s1", "s2"}         \* further consumers of engine.bus.subscribe()
ApiConns == {"c1"}                \* connections of GET /api/events
Actions == {"pause", "resume"}    \* ControlCommand.action
Routes == {"vision", "code"}      \* PromptCommand.route_to
SystemContents == {"p1", "p2"}    \* content passed to Conversation.set_system

InFlightPcs == {"pub_started", "exchange", "log_sent", "pub_sent", "log_recv",
                "pub_recv", "patch", "capture", "log_shot", "pub_shot"}
LoopKinds == {"run.started", "iteration.started", "prompt.sent",
              "response.received", "screenshot.captured"}

VARIABLES
  paused, iteration, run_id,      \* RunLoop fields
  pc, it, rid, raised,            \* position of start/step_forever, its locals, the exception that left it
  logs,                           \* events.jsonl of each run
  workspace, snaps,               \* workspace/index.html of each run, screenshot files
  bus_subs, bus_q,                \* engine.bus._subs and its queues
  bus_recv, bus_since,            \* per observer: what subscribe() yielded to it, Len(published) when it registered
  api_subs, api_q, api_recv,      \* adapters.http.api._subs, its queues, what each client was sent
  api_client,                     \* whether the HTTP client of a connection is still connected
  cmds,                           \* control commands accepted so far
  published,                      \* every event passed to engine.bus.publish, in call order
  completed,                      \* ordinals whose iteration ran to its last publish
  paused_ticks,                   \* ticks taken while paused since the last completed iteration (saturating)
  r_pc, r_max, r_i,               \* or_client._retry: its position, max_tries, the loop variable i
  r_hist, r_sleeps, r_out,        \* _retry: outcome of each await coro_fn(), exponent of each backoff, what it returned or raised
  c_messages, c_pc,               \* or_client.Conversation: _messages, and whether an ask() awaits its chat()
  prompts                         \* route_to of the PromptCommands POST /api/prompt accepted

loopVars == <<paused, iteration, run_id, pc, it, rid, raised>>
diskVars == <<logs, workspace, snaps>>
busVars  == <<bus_subs, bus_q, bus_recv, bus_since>>
apiVars  == <<api_subs, api_q, api_recv, api_client, cmds>>
histVars == <<published, completed, paused_ticks>>
retryVars == <<r_pc, r_max, r_i, r_hist, r_sleeps, r_out>>
convVars == <<c_messages, c_pc>>
\* What no step of the engine or of the event adapters touches.
sideVars == <<retryVars, convVars, prompts>>
vars == <<loopVars, diskVars, busVars, apiVars, histVars, sideVars>>

\* ------------------------------------------------------------- contracts
\* BaseEvent and its variants; n is IterationStarted.n or the variant's
\* iteration field, 0 where the variant has none; where is ErrorEv.where,
\* to is PromptSent.to.
Ev(t, r, n) == [t |-> t, run_id |-> r, n |-> n, where |-> "none", to |-> "none"]
\* RunStarted built without the run identifier.
RunStarted_NoId(r) == Ev("run.started", None, 0)
RunStarted(r) == Ev("run.started", r, 0)
IterationStarted(r, n) == Ev("iteration.started", r, n)
PromptSent(n) == Ev("prompt.sent", None, n)
ResponseReceived(n) == Ev("response.received", None, n)
ScreenshotCaptured(r, n) == Ev("screenshot.captured", r, n)
ControlPaused == Ev("control.paused", None, 0)
ControlResumed == Ev("control.resumed", None, 0)
Hello == Ev("hello", None, 0)

\* ------------------------------------------------------------ storage
\* storage.events_log.append: one more line at the end of the run's file.
log_append(L, r, ev) == [L EXCEPT ![r] = Append(@, ev)]

\* ----------------------------------------------------------- engine.bus
\* publish putting ev at the front of each queue.
bus_publish_Front(q, subs, ev) == [s \in DOMAIN q |-> IF s \in subs THEN <<ev>> \o q[s] ELSE q[s]]

\* publish: put ev on the queue of every registered subscriber.
bus_publish(q, subs, ev) == [s \in DOMAIN q |-> IF s \in subs THEN Append(q[s], ev) ELSE q[s]]

\* -------------------------------------------------------------- handlers
\* agent_exchange: the two envelopes, run_id still unset; prompt.sent
\* carries to = route_to.
agent_exchange(r, n, route_to) ==
  <<[PromptSent(n) EXCEPT !.to = route_to], ResponseReceived(n)>>

InSeq(x, s) == \E i \in 1..Len(s) : s[i] = x

\* ensure_workspace_index: create index.html (token 0) when it is absent.
ensure_workspace_index(w) == IF w = <<>> THEN <<0>> ELSE w

\* deterministic_patch appending the marker without looking for it.
deterministic_patch_Appends(w, n) == Append(ensure_workspace_index(w), n)

\* deterministic_patch: append the marker of n unless it is already there.
deterministic_patch(w, n) ==
  LET html == ensure_workspace_index(w)
  IN IF InSeq(n, html) THEN html ELSE Append(html, n)

\* ------------------------------------------------------------ or_client
\* What one await coro_fn() can do: return, or raise one of the openai
\* exceptions _retry names (APIStatusError with its status_code), or raise
\* anything else.
Returned == [cls |-> "return", code |-> 0]
StatusCodes == {400, 402, 408, 429, 500, 501, 502, 503, 504}
Outcomes ==
  {Returned}
    \cup {[cls |-> c, code |-> 0] : c \in {"APITimeoutError", "APIConnectionError", "ValueError"}}
    \cup {[cls |-> "RateLimitError", code |-> 429]}
    \cup {[cls |-> "APIStatusError", code |-> c] : c \in StatusCodes}
NoOutcome == [cls |-> "none", code |-> 0]

\* Every raised outcome counted as one to back off for.
Backoff_Always(o) == o # Returned

\* or_client.py 154, 159-164: the outcomes _retry backs off for.
Backoff(o) ==
  \/ o.cls \in {"RateLimitError", "APITimeoutError", "APIConnectionError"}
  \/ o.cls = "APIStatusError" /\ o.code # 402 /\ o.code \in {408, 429, 500, 502, 503, 504}

\* A last attempt that is never recognised as the last.
LastTry_Never == FALSE

\* or_client.py 156, 165: i == max_tries - 1
LastTry == r_i = r_max - 1

\* ------------------------------------------------------------------ Init
\* No exception so far.
NoError == [where |-> "none", ev |-> "none"]

Init ==
  /\ paused = TRUE /\ iteration = 0 /\ run_id = None
  /\ pc = "created" /\ it = 0 /\ rid = None /\ raised = NoError
  /\ logs = [r \in RunIds |-> <<>>]
  /\ workspace = [r \in RunIds |-> <<>>]
  /\ snaps = {}
  /\ bus_subs = {} /\ bus_q = [s \in EngineSubs \cup Observers |-> <<>>]
  /\ bus_recv = [s \in Observers |-> <<>>]
  /\ bus_since = [s \in Observers |-> 0]
  /\ api_subs = {} /\ api_q = [c \in ApiConns |-> <<>>]
  /\ api_recv = [c \in ApiConns |-> <<>>]
  /\ api_client = [c \in ApiConns |-> FALSE]
  /\ cmds = <<>>
  /\ published = <<>> /\ completed = {}
  /\ paused_ticks = 0
  /\ r_pc = "idle" /\ r_max = 0 /\ r_i = 0
  /\ r_hist = <<>> /\ r_sleeps = <<>> /\ r_out = NoOutcome
  /\ c_messages = <<>> /\ c_pc = "idle"
  /\ prompts = <<>>

\* Publish on queues of capacity one: the put waits while a queue is full.
Publish_Bounded(ev) ==
  /\ \A s \in bus_subs : Len(bus_q[s]) < 1
  /\ bus_q' = bus_publish(bus_q, bus_subs, ev)
  /\ published' = Append(published, ev)
  /\ UNCHANGED <<bus_subs, bus_recv, bus_since>>

\* The await publish(ev) of the run loop and of dev_server.engine_task.
Publish(ev) ==
  /\ bus_q' = bus_publish(bus_q, bus_subs, ev)
  /\ published' = Append(published, ev)
  /\ UNCHANGED <<bus_subs, bus_recv, bus_since>>

\* An exception leaves start / step_forever (neither has a try): w is the
\* step that raised, t the kind of the event whose log append raised.
Raise(w, t) == pc' = "raised" /\ raised' = [where |-> w, ev |-> t]

\* --------------------------------------------------------- RunLoop.start
\* run_loop.py 19-21: mint the run id, append run.started (the append may raise).
Start ==
  /\ pc = "created"
  /\ \E r \in RunIds :
       /\ run_id' = r
       /\ \/ /\ logs' = log_append(logs, r, RunStarted(r))
             /\ pc' = "start_pub" /\ raised' = raised
          \/ /\ logs' = logs
             /\ Raise("log", "run.started")
  /\ UNCHANGED <<paused, iteration, it, rid, workspace, snaps, busVars, apiVars, histVars>>
  /\ UNCHANGED sideVars

\* run_loop.py 22
StartPublish ==
  /\ pc = "start_pub"
  /\ Publish(RunStarted(run_id))
  /\ pc' = "started"
  /\ UNCHANGED <<paused, iteration, run_id, it, rid, raised, diskVars, apiVars,
                 completed, paused_ticks>>
  /\ UNCHANGED sideVars

\* The number of run.started events appended so far, over all runs.
StartsLogged ==
  LET n(r) == Len(SelectSeq(logs[r], LAMBDA e : e.t = "run.started"))
  IN n("r1") + n("r2")

\* run_loop.py 19-22: start() called again on the same RunLoop by another
\* task while step_forever has not been entered or is suspended in
\* to_thread or sleep.  start() holds no suspension point: the append and
\* the publish are one step; when the append raises the new run id stays.
\* mk_run_id (timestamp and four random characters) returns an identifier
\* that no earlier start() of this loop got.
Restart ==
  /\ pc \in {"started", "capture", "sleep"}
  /\ StartsLogged < MaxStarts
  /\ \E r \in RunIds \ {run_id} :
       /\ logs[r] = <<>>
       /\ run_id' = r
       /\ \/ /\ logs' = log_append(logs, r, RunStarted(r))
             /\ Publish(RunStarted(r))
          \/ /\ logs' = logs
             /\ UNCHANGED <<busVars, published>>
  /\ UNCHANGED <<paused, iteration, pc, it, rid, raised, workspace, snaps, apiVars,
                 completed, paused_ticks>>
  /\ UNCHANGED sideVars

\* ------------------------------------------------ RunLoop.pause / resume
\* pause() flipping the gate instead of closing it.
pause_Toggles == paused' = ~paused

\* run_loop.py 27-28
pause == paused' = TRUE

\* run_loop.py 24-25
resume == paused' = FALSE

\* pause() / resume() called by the driver.
Pause ==
  /\ pause
  /\ UNCHANGED <<iteration, run_id, pc, it, rid, raised, diskVars, busVars, apiVars,
                 published, completed, paused_ticks>>
  /\ UNCHANGED sideVars

\* Resume as a restart: the gate opens and the counter is reset.
Resume_Restarts ==
  /\ resume
  /\ iteration' = 0
  /\ UNCHANGED <<run_id, pc, it, rid, raised, diskVars, busVars, apiVars,
                 published, completed, paused_ticks>>
  /\ UNCHANGED sideVars

Resume ==
  /\ resume
  /\ UNCHANGED <<iteration, run_id, pc, it, rid, raised, diskVars, busVars, apiVars,
                 published, completed, paused_ticks>>
  /\ UNCHANGED sideVars

\* ------------------------------------------------- dev_server.engine_task
\* dev_server.py 15: await loop.resume()
EngineTaskResume ==
  /\ pc = "started"
  /\ resume
  /\ pc' = "et_pub"
  /\ UNCHANGED <<iteration, run_id, it, rid, raised, diskVars, busVars, apiVars,
                 published, completed, paused_ticks>>
  /\ UNCHANGED sideVars

\* dev_server.py 17: await publish(ControlResumed(...))
EngineTaskPublish ==
  /\ pc = "et_pub"
  /\ Publish(ControlResumed)
  /\ pc' = "enter"
  /\ UNCHANGED <<paused, iteration, run_id, it, rid, raised, diskVars, apiVars,
                 completed, paused_ticks>>
  /\ UNCHANGED sideVars

\* -------------------------------------------------- RunLoop.step_forever
\* step_forever entered without the assert on the run identifier.
StepForever_NoAssert ==
  /\ pc \in {"created", "started", "enter"}
  /\ pc' = "loop" /\ raised' = raised
  /\ UNCHANGED <<paused, iteration, run_id, it, rid, diskVars, busVars, apiVars, histVars>>
  /\ UNCHANGED sideVars

\* run_loop.py 31: the assert on entry; called by engine_task, or by a
\* driver right after start(), or before start().
StepForever ==
  /\ pc \in {"created", "started", "enter"}
  /\ IF run_id = None THEN Raise("assert", "none") ELSE pc' = "loop" /\ raised' = raised
  /\ UNCHANGED <<paused, iteration, run_id, it, rid, diskVars, busVars, apiVars, histVars>>
  /\ UNCHANGED sideVars

\* TickPaused with the increment outside the gate test.
TickPaused_Counts ==
  /\ pc = "loop" /\ paused
  /\ pc' = "sleep"
  /\ iteration' = IF iteration < MaxIter THEN iteration + 1 ELSE iteration
  /\ paused_ticks' = IF paused_ticks < PausedTickCap THEN paused_ticks + 1 ELSE paused_ticks
  /\ UNCHANGED <<paused, run_id, it, rid, raised, diskVars, busVars, apiVars,
                 published, completed>>
  /\ UNCHANGED sideVars

\* run_loop.py 33, 55: the gate is closed, go to sleep.
TickPaused ==
  /\ pc = "loop" /\ paused
  /\ pc' = "sleep"
  /\ paused_ticks' = IF paused_ticks < PausedTickCap THEN paused_ticks + 1 ELSE paused_ticks
  /\ UNCHANGED <<paused, iteration, run_id, it, rid, raised, diskVars, busVars, apiVars,
                 published, completed>>
  /\ UNCHANGED sideVars

\* IterBegin with the ordinal captured before the increment.
IterBegin_StaleOrdinal ==
  /\ pc = "loop" /\ ~paused /\ iteration < MaxIter
  /\ iteration' = iteration + 1
  /\ it' = iteration
  /\ rid' = run_id
  /\ \/ /\ logs' = log_append(logs, run_id, IterationStarted(run_id, iteration))
        /\ pc' = "pub_started" /\ raised' = raised
     \/ /\ logs' = logs
        /\ Raise("log", "iteration.started")
  /\ UNCHANGED <<paused, run_id, workspace, snaps, busVars, apiVars, histVars>>
  /\ UNCHANGED sideVars

\* IterBegin without the test of the gate.
IterBegin_IgnoresGate ==
  /\ pc = "loop" /\ iteration < MaxIter
  /\ iteration' = iteration + 1
  /\ it' = iteration + 1
  /\ rid' = run_id
  /\ \/ /\ logs' = log_append(logs, run_id, IterationStarted(run_id, iteration + 1))
        /\ pc' = "pub_started" /\ raised' = raised
     \/ /\ logs' = logs
        /\ Raise("log", "iteration.started")
  /\ UNCHANGED <<paused, run_id, workspace, snaps, busVars, apiVars, histVars>>
  /\ UNCHANGED sideVars

\* run_loop.py 33-39: the gate is open; increment, capture it and rid, append
\* iteration.started (the append may raise).
IterBegin ==
  /\ pc = "loop" /\ ~paused /\ iteration < MaxIter
  /\ iteration' = iteration + 1
  /\ it' = iteration + 1
  /\ rid' = run_id
  /\ \/ /\ logs' = log_append(logs, run_id, IterationStarted(run_id, iteration + 1))
        /\ pc' = "pub_started" /\ raised' = raised
     \/ /\ logs' = logs
        /\ Raise("log", "iteration.started")
  /\ UNCHANGED <<paused, run_id, workspace, snaps, busVars, apiVars, histVars>>
  /\ UNCHANGED sideVars

\* run_loop.py 40
PubStarted ==
  /\ pc = "pub_started"
  /\ Publish(IterationStarted(rid, it))
  /\ pc' = "exchange"
  /\ UNCHANGED <<paused, iteration, run_id, it, rid, raised, diskVars, apiVars,
                 completed, paused_ticks>>
  /\ UNCHANGED sideVars

\* run_loop.py 42: agent_exchange builds both envelopes locally and returns.
Exchange ==
  /\ pc = "exchange"
  /\ pc' = "log_sent"
  /\ UNCHANGED <<paused, iteration, run_id, it, rid, raised, diskVars, busVars, apiVars, histVars>>
  /\ UNCHANGED sideVars

\* The envelope of agent_exchange with run_id set (run_loop.py 44).
Sent == [agent_exchange(rid, it, "code")[1] EXCEPT !.run_id = rid]
Recv == [agent_exchange(rid, it, "code")[2] EXCEPT !.run_id = rid]

\* A log append whose failure is noted and passed over: the loop goes on
\* to publish the event.
LogStep_Continues(from, to, ev) ==
  /\ pc = from
  /\ pc' = to
  /\ \/ logs' = log_append(logs, rid, ev) /\ raised' = raised
     \/ logs' = logs /\ raised' = [where |-> "log", ev |-> ev.t]
  /\ UNCHANGED <<paused, iteration, run_id, it, rid, workspace, snaps, busVars, apiVars, histVars>>
  /\ UNCHANGED sideVars

\* run_loop.py 44-45 for ev = sent, recv, s_ev (53): append, or raise.
LogStep(from, to, ev) ==
  /\ pc = from
  /\ \/ /\ logs' = log_append(logs, rid, ev)
        /\ pc' = to /\ raised' = raised
     \/ /\ logs' = logs
        /\ Raise("log", ev.t)
  /\ UNCHANGED <<paused, iteration, run_id, it, rid, workspace, snaps, busVars, apiVars, histVars>>
  /\ UNCHANGED sideVars

\* run_loop.py 46, 54
PubStep(from, to, ev) ==
  /\ pc = from
  /\ Publish(ev)
  /\ pc' = to
  /\ UNCHANGED <<paused, iteration, run_id, it, rid, raised, diskVars, apiVars>>
  /\ UNCHANGED sideVars

LogSent == LogStep("log_sent", "pub_sent", Sent)

PubSent == PubStep("pub_sent", "log_recv", Sent) /\ UNCHANGED <<completed, paused_ticks>>

\* A step of the loop that moves on without its log append.
SkipLog(from, to) ==
  /\ pc = from
  /\ pc' = to
  /\ UNCHANGED <<paused, iteration, run_id, it, rid, raised, diskVars, busVars, apiVars, histVars>>
  /\ UNCHANGED sideVars

\* LogRecv with the append left out.
LogRecv_Skipped == SkipLog("log_recv", "pub_recv")

LogRecv == LogStep("log_recv", "pub_recv", Recv)

PubRecv == PubStep("pub_recv", "patch", Recv) /\ UNCHANGED <<completed, paused_ticks>>

\* run_loop.py 48-49: deterministic_patch; a file error raises, before
\* index.html is touched or after ensure_workspace_index created it.
Patch ==
  /\ pc = "patch"
  /\ \/ /\ workspace' = [workspace EXCEPT ![rid] = deterministic_patch(@, it)]
        /\ pc' = "capture" /\ raised' = raised
     \/ /\ \/ workspace' = workspace
           \/ workspace' = [workspace EXCEPT ![rid] = ensure_workspace_index(@)]
        /\ Raise("patch", "none")
  /\ UNCHANGED <<paused, iteration, run_id, it, rid, logs, snaps, busVars, apiVars, histVars>>
  /\ UNCHANGED sideVars

\* handlers.py 39-46 called directly for run r and ordinal n, in any order
\* and any number of times; the write of the marker may raise after
\* ensure_workspace_index has created the file.
PatchCall(r, n) ==
  /\ \/ workspace' = [workspace EXCEPT ![r] = deterministic_patch(@, n)]
     \/ workspace' = [workspace EXCEPT ![r] = ensure_workspace_index(@)]
  /\ UNCHANGED <<loopVars, logs, snaps, busVars, apiVars, histVars>>
  /\ UNCHANGED sideVars

\* The capture started and not awaited: the loop goes on before the
\* screenshot file is written.
Capture_NotAwaited ==
  /\ pc = "capture"
  /\ pc' = "log_shot"
  /\ UNCHANGED <<paused, iteration, run_id, it, rid, raised, diskVars, busVars, apiVars, histVars>>
  /\ UNCHANGED sideVars

\* A capture whose failure takes the iteration's marker out of the
\* workspace again.
Capture_RollsBack ==
  /\ pc = "capture"
  /\ \/ /\ snaps' = snaps \cup {<<rid, it>>}
        /\ workspace' = workspace
        /\ pc' = "log_shot" /\ raised' = raised
     \/ /\ snaps' = snaps
        /\ workspace' = [workspace EXCEPT ![rid] = SelectSeq(@, LAMBDA x : x # it)]
        /\ Raise("screenshot", "none")
  /\ UNCHANGED <<paused, iteration, run_id, it, rid, logs, busVars, apiVars, histVars>>
  /\ UNCHANGED sideVars

\* run_loop.py 51: capture_html in a worker thread writes snap_<it>.png, or raises.
Capture ==
  /\ pc = "capture"
  /\ \/ /\ snaps' = snaps \cup {<<rid, it>>}
        /\ pc' = "log_shot" /\ raised' = raised
     \/ /\ snaps' = snaps
        /\ Raise("screenshot", "none")
  /\ UNCHANGED <<paused, iteration, run_id, it, rid, logs, workspace, busVars, apiVars, histVars>>
  /\ UNCHANGED sideVars

\* LogShot with the append left out.
LogShot_Skipped == SkipLog("log_shot", "pub_shot")

\* run_loop.py 52-53
LogShot == LogStep("log_shot", "pub_shot", ScreenshotCaptured(rid, it))

\* run_loop.py 54
PubShot ==
  /\ PubStep("pub_shot", "sleep", ScreenshotCaptured(rid, it))
  /\ completed' = completed \cup {it}
  /\ paused_ticks' = 0
  /\ UNCHANGED sideVars

\* The loop body run once: after the sleep step_forever returns.
Sleep_Exits ==
  /\ pc = "sleep"
  /\ pc' = "exited"
  /\ UNCHANGED <<paused, iteration, run_id, it, rid, raised, diskVars, busVars, apiVars, histVars>>
  /\ UNCHANGED sideVars

\* run_loop.py 55: the sleep returns, back to the top of the while.
Sleep ==
  /\ pc = "sleep"
  /\ pc' = "loop"
  /\ UNCHANGED <<paused, iteration, run_id, it, rid, raised, diskVars, busVars, apiVars, histVars>>
  /\ UNCHANGED sideVars

\* Every step of step_forever's while loop.
LoopStep ==
  \/ TickPaused \/ IterBegin \/ PubStarted \/ Exchange \/ LogSent \/ PubSent
  \/ LogRecv \/ PubRecv \/ Patch \/ Capture \/ LogShot \/ PubShot \/ Sleep

\* ----------------------------------------------- engine.bus.subscribe
\* Subscribe handing the new subscriber everything published so far.
Subscribe_Replays(s) ==
  /\ s \notin bus_subs
  /\ bus_subs' = bus_subs \cup {s}
  /\ bus_q' = [bus_q EXCEPT ![s] = published]
  /\ IF s \in Observers
       THEN /\ bus_recv' = [bus_recv EXCEPT ![s] = <<>>]
            /\ bus_since' = [bus_since EXCEPT ![s] = Len(published)]
       ELSE UNCHANGED <<bus_recv, bus_since>>
  /\ UNCHANGED <<loopVars, diskVars, apiVars, histVars>>
  /\ UNCHANGED sideVars

\* bus.py 14-15: the consumer's first pull creates and registers its queue.
Subscribe(s) ==
  /\ s \notin bus_subs
  /\ bus_subs' = bus_subs \cup {s}
  /\ bus_q' = [bus_q EXCEPT ![s] = <<>>]
  /\ IF s \in Observers
       THEN /\ bus_recv' = [bus_recv EXCEPT ![s] = <<>>]
            /\ bus_since' = [bus_since EXCEPT ![s] = Len(published)]
       ELSE UNCHANGED <<bus_recv, bus_since>>
  /\ UNCHANGED <<loopVars, diskVars, apiVars, histVars>>
  /\ UNCHANGED sideVars

\* Consume on one queue shared by all subscribers: taking an event takes it
\* away from the others.
Consume_Shared(s) ==
  /\ s \in bus_subs /\ bus_q[s] # <<>>
  /\ bus_recv' = [bus_recv EXCEPT ![s] = Append(@, Head(bus_q[s]))]
  /\ bus_q' = [x \in DOMAIN bus_q |-> IF bus_q[x] # <<>> THEN Tail(bus_q[x]) ELSE bus_q[x]]
  /\ UNCHANGED <<bus_subs, bus_since, loopVars, diskVars, apiVars, histVars>>
  /\ UNCHANGED sideVars

\* bus.py 18: yield await q.get() hands the oldest queued event to the observer.
Consume(s) ==
  /\ s \in bus_subs /\ bus_q[s] # <<>>
  /\ bus_recv' = [bus_recv EXCEPT ![s] = Append(@, Head(bus_q[s]))]
  /\ bus_q' = [bus_q EXCEPT ![s] = Tail(@)]
  /\ UNCHANGED <<bus_subs, bus_since, loopVars, diskVars, apiVars, histVars>>
  /\ UNCHANGED sideVars

\* bus.py 19-20: the observer closes the generator; its queue leaves _subs
\* and is dropped with what it held.
Unsubscribe(s) ==
  /\ s \in bus_subs
  /\ bus_subs' = bus_subs \ {s}
  /\ bus_q' = [bus_q EXCEPT ![s] = <<>>]
  /\ bus_recv' = [bus_recv EXCEPT ![s] = <<>>]
  /\ bus_since' = [bus_since EXCEPT ![s] = 0]
  /\ UNCHANGED <<loopVars, diskVars, apiVars, histVars>>
  /\ UNCHANGED sideVars

\* The control kinds, as events of engine.bus.
ControlKinds == {"control.pause", "control.paused", "control.resume", "control.resumed"}

\* bus.py 8-10: a task of the process publishes a control event on engine.bus.
BusPublish(t) ==
  /\ Cardinality({i \in 1..Len(published) : published[i].t \in ControlKinds}) < MaxControl
  /\ Publish(Ev(t, None, 0))
  /\ UNCHANGED <<loopVars, diskVars, apiVars, completed, paused_ticks>>
  /\ UNCHANGED sideVars

\* The control listener acting on control.pause / control.resume only.
ControlListener_CommandsOnly ==
  /\ "ctl" \in bus_subs /\ bus_q["ctl"] # <<>>
  /\ LET ev == Head(bus_q["ctl"]) IN
       /\ bus_q' = [bus_q EXCEPT !["ctl"] = Tail(@)]
       /\ IF ev.t = "control.pause" THEN pause
          ELSE IF ev.t = "control.resume" THEN resume
          ELSE UNCHANGED paused
  /\ UNCHANGED <<bus_subs, bus_recv, bus_since, iteration, run_id, pc, it, rid, raised,
                 diskVars, apiVars, published, completed, paused_ticks>>
  /\ UNCHANGED sideVars

\* ------------------------------------------- dev_server.control_listener
\* dev_server.py 26-31: take the next event, toggle the gate on its kind.
ControlListener ==
  /\ "ctl" \in bus_subs /\ bus_q["ctl"] # <<>>
  /\ LET ev == Head(bus_q["ctl"]) IN
       /\ bus_q' = [bus_q EXCEPT !["ctl"] = Tail(@)]
       /\ IF ev.t \in {"control.pause", "control.paused"} THEN pause
          ELSE IF ev.t \in {"control.resume", "control.resumed"} THEN resume
          ELSE UNCHANGED paused
  /\ UNCHANGED <<bus_subs, bus_recv, bus_since, iteration, run_id, pc, it, rid, raised,
                 diskVars, apiVars, published, completed, paused_ticks>>
  /\ UNCHANGED sideVars

\* ----------------------------------------------------- adapters.http.api
\* api.py publish: put ev on the queue of every subscriber of the adapter's own set.
api_publish(q, subs, ev) == [c \in DOMAIN q |-> IF c \in subs THEN Append(q[c], ev) ELSE q[c]]

\* GET /api/events registering its queue without the hello bootstrap.
ApiConnect_NoHello(c) ==
  /\ c \notin api_subs
  /\ api_subs' = api_subs \cup {c}
  /\ api_q' = [api_q EXCEPT ![c] = <<>>]
  /\ api_recv' = [api_recv EXCEPT ![c] = <<>>]
  /\ api_client' = [api_client EXCEPT ![c] = TRUE]
  /\ UNCHANGED <<cmds, loopVars, diskVars, busVars, histVars>>
  /\ UNCHANGED sideVars

\* api.py 24-27, 38-41: GET /api/events registers a queue in api._subs and
\* sends the hello bootstrap.
ApiConnect(c) ==
  /\ c \notin api_subs
  /\ api_subs' = api_subs \cup {c}
  /\ api_q' = [api_q EXCEPT ![c] = <<>>]
  /\ api_recv' = [api_recv EXCEPT ![c] = <<Hello>>]
  /\ api_client' = [api_client EXCEPT ![c] = TRUE]
  /\ UNCHANGED <<cmds, loopVars, diskVars, busVars, histVars>>
  /\ UNCHANGED sideVars

\* api.py 29-30, 38-41: forward the next queued event; when the client is
\* gone the loop breaks and the finally of subscribe discards the queue.
ApiForward(c) ==
  /\ c \in api_subs /\ api_q[c] # <<>>
  /\ api_q' = [api_q EXCEPT ![c] = Tail(@)]
  /\ IF api_client[c]
       THEN /\ api_recv' = [api_recv EXCEPT ![c] = Append(@, Head(api_q[c]))]
            /\ api_subs' = api_subs
       ELSE /\ api_recv' = api_recv
            /\ api_subs' = api_subs \ {c}
  /\ UNCHANGED <<api_client, cmds, loopVars, diskVars, busVars, histVars>>
  /\ UNCHANGED sideVars

\* The HTTP client of a connection goes away.
ApiDisconnect(c) ==
  /\ c \in api_subs /\ api_client[c]
  /\ api_client' = [api_client EXCEPT ![c] = FALSE]
  /\ UNCHANGED <<api_subs, api_q, api_recv, cmds, loopVars, diskVars, busVars, histVars>>
  /\ UNCHANGED sideVars

\* api.py 31-32: the response task is cancelled after the disconnect, the
\* finally of subscribe discards the queue.
ApiUnsubscribe(c) ==
  /\ c \in api_subs /\ ~api_client[c]
  /\ api_subs' = api_subs \ {c}
  /\ UNCHANGED <<api_q, api_recv, api_client, cmds, loopVars, diskVars, busVars, histVars>>
  /\ UNCHANGED sideVars

\* api.py 46-52: POST /api/control publishes control.paused / control.resumed
\* on the adapter's own subscriber set.
control(a) ==
  /\ Len(cmds) < MaxCmds
  /\ api_q' = api_publish(api_q, api_subs, IF a = "pause" THEN ControlPaused ELSE ControlResumed)
  /\ cmds' = Append(cmds, a)
  /\ UNCHANGED <<api_subs, api_recv, api_client, loopVars, diskVars, busVars, histVars>>
  /\ UNCHANGED sideVars

\* POST /api/prompt publishing the routed prompt on the engine bus.
prompt_Publishes(route) ==
  /\ Len(prompts) < MaxPrompts
  /\ prompts' = Append(prompts, route)
  /\ Publish([PromptSent(0) EXCEPT !.to = route])
  /\ UNCHANGED <<loopVars, diskVars, apiVars, completed, paused_ticks, retryVars, convVars>>

\* api.py 55-58: POST /api/prompt validates the PromptCommand and answers
\* ok; nothing is routed.
prompt(route) ==
  /\ Len(prompts) < MaxPrompts
  /\ prompts' = Append(prompts, route)
  /\ UNCHANGED <<loopVars, diskVars, busVars, apiVars, histVars, retryVars, convVars>>

\* ------------------------------------------------------ or_client._retry
\* or_client.py 145, 151: _retry(coro_fn, max_tries) is called; i = 0.
RetryCall(m) ==
  /\ r_pc = "idle"
  /\ r_pc' = "call" /\ r_max' = m /\ r_i' = 0
  /\ UNCHANGED <<r_hist, r_sleeps, r_out>>
  /\ UNCHANGED <<loopVars, diskVars, busVars, apiVars, histVars, convVars, prompts>>

\* or_client.py 152-169: one await coro_fn() and what the except clauses
\* do with its outcome: return it, start the backoff sleep base * 2^i, or
\* let the exception leave _retry.
RetryAttempt ==
  /\ r_pc = "call" /\ r_i < r_max
  /\ \E o \in Outcomes :
       /\ r_hist' = Append(r_hist, o)
       /\ IF o = Returned
            THEN r_pc' = "returned" /\ r_out' = o /\ r_sleeps' = r_sleeps
            ELSE IF Backoff(o) /\ ~LastTry
              THEN r_pc' = "sleep" /\ r_out' = r_out /\ r_sleeps' = Append(r_sleeps, r_i)
              ELSE r_pc' = "raised" /\ r_out' = o /\ r_sleeps' = r_sleeps
  /\ UNCHANGED <<r_max, r_i>>
  /\ UNCHANGED <<loopVars, diskVars, busVars, apiVars, histVars, convVars, prompts>>

\* or_client.py 158, 167, 151: the sleep is over, the for loop takes the next i.
RetryWake ==
  /\ r_pc = "sleep"
  /\ r_pc' = "call" /\ r_i' = r_i + 1
  /\ UNCHANGED <<r_max, r_hist, r_sleeps, r_out>>
  /\ UNCHANGED <<loopVars, diskVars, busVars, apiVars, histVars, convVars, prompts>>

\* ------------------------------------------------ or_client.Conversation
\* The calls on one Conversation are made one after the other.
Msg(role, content) == [role |-> role, content |-> content]

\* or_client.py 250-254: replace the content of a leading system message,
\* or insert one at index 0.
set_system(content) ==
  /\ c_pc = "idle"
  /\ c_messages' =
       IF c_messages # <<>> /\ c_messages[1].role = "system"
         THEN [c_messages EXCEPT ![1].content = content]
         ELSE <<Msg("system", content)>> \o c_messages
  /\ UNCHANGED <<c_pc, loopVars, diskVars, busVars, apiVars, histVars, retryVars, prompts>>

\* or_client.py 256-257
reset ==
  /\ c_pc = "idle"
  /\ c_messages' = <<>>
  /\ UNCHANGED <<c_pc, loopVars, diskVars, busVars, apiVars, histVars, retryVars, prompts>>

\* or_client.py 303-307: ask() builds the user turn (ValueError when it has
\* neither text nor image), appends it and awaits chat().
AskBegin ==
  /\ c_pc = "idle" /\ Len(c_messages) < MaxMessages
  /\ \/ c_messages' = Append(c_messages, Msg("user", "u")) /\ c_pc' = "asking"
     \/ UNCHANGED <<c_messages, c_pc>>
  /\ UNCHANGED <<loopVars, diskVars, busVars, apiVars, histVars, retryVars, prompts>>

\* or_client.py 307-314: chat() returned the reply; it is appended.
AskReturn ==
  /\ c_pc = "asking"
  /\ c_messages' = Append(c_messages, Msg("assistant", "a"))
  /\ c_pc' = "idle"
  /\ UNCHANGED <<loopVars, diskVars, busVars, apiVars, histVars, retryVars, prompts>>

\* or_client.py 307-311: chat() raised (the error _retry let through); the
\* exception leaves ask().
AskRaise ==
  /\ c_pc = "asking"
  /\ c_pc' = "idle"
  /\ UNCHANGED <<c_messages, loopVars, diskVars, busVars, apiVars, histVars, retryVars, prompts>>

\* ------------------------------------------------------------------ Next
\* The engine: the run loop, its callers and the control listener on engine.bus.
NextEngine ==
  \/ Start \/ StartPublish
  \/ Pause \/ Resume
  \/ EngineTaskResume \/ EngineTaskPublish
  \/ StepForever
  \/ LoopStep
  \/ \E s \in EngineSubs : Subscribe(s)
  \/ ControlListener

\* The HTTP adapter; it reads and writes its own subscriber set only.
NextApi ==
  \/ \E c \in ApiConns : ApiConnect(c) \/ ApiForward(c) \/ ApiDisconnect(c) \/ ApiUnsubscribe(c)
  \/ \E a \in Actions : control(a)

Next == NextEngine \/ NextApi

\* The run loop publishing to observers of engine.bus that register,
\* consume at their own pace and leave.
NextBus ==
  \/ Start \/ StartPublish
  \/ EngineTaskResume \/ EngineTaskPublish
  \/ StepForever
  \/ LoopStep
  \/ \E s \in Observers : Subscribe(s) \/ Consume(s) \/ Unsubscribe(s)

\* One RunLoop whose start() is called more than once.
NextRestart ==
  \/ Start \/ StartPublish
  \/ EngineTaskResume \/ EngineTaskPublish
  \/ StepForever
  \/ LoopStep
  \/ Restart

\* The engine with control events arriving on engine.bus.
NextListener ==
  \/ Start \/ StartPublish
  \/ EngineTaskResume \/ EngineTaskPublish
  \/ StepForever
  \/ LoopStep
  \/ \E s \in EngineSubs : Subscribe(s)
  \/ \E t \in ControlKinds : BusPublish(t)
  \/ ControlListener

\* The patch collaborator called for any run and ordinal.
NextPatch == \E r \in RunIds : \E n \in 1..MaxOrdinal : PatchCall(r, n)

\* One call of _retry.
NextRetry ==
  \/ \E m \in 1..MaxTries : RetryCall(m)
  \/ RetryAttempt
  \/ RetryWake

\* The run loop, a live-stream connection and the prompt endpoint.
NextPrompt ==
  \/ Start \/ StartPublish
  \/ EngineTaskResume \/ EngineTaskPublish
  \/ StepForever
  \/ LoopStep
  \/ \E c \in ApiConns : ApiConnect(c)
  \/ \E route \in Routes : prompt(route)

\* One Conversation and its caller.
NextConversation ==
  \/ \E content \in SystemContents : set_system(content)
  \/ reset
  \/ AskBegin \/ AskReturn \/ AskRaise

Spec == Init /\ [][Next]_vars

\* The engine alone, where step_forever is resumed whenever the call it
\* awaits has returned.
LiveSpec == Init /\ [][NextEngine]_vars /\ WF_vars(LoopStep)

\* The loop and the observers; only the loop is scheduled fairly, an
\* observer may stop consuming for good.
BusSpec == Init /\ [][NextBus]_vars /\ WF_vars(LoopStep)

\* The run loop with repeated start().
SpecRestart == Init /\ [][NextRestart]_vars

\* The control listener fed with every control kind.
ListenerSpec == Init /\ [][NextListener]_vars

\* The patch collaborator on its own.
PatchSpec == Init /\ [][NextPatch]_vars

\* _retry, resumed whenever the call or the sleep it awaits is over.
RetrySpec == Init /\ [][NextRetry]_vars /\ WF_vars(RetryAttempt \/ RetryWake)

\* The loop running while prompt commands arrive.
PromptSpec == Init /\ [][NextPrompt]_vars

\* Any sequence of set_system, reset and ask calls on one Conversation.
ConversationSpec == Init /\ [][NextConversation]_vars

\* ============================================================ properties
Last(s) == s[Len(s)]
Idx(L, t, n) == {i \in 1..Len(L) : L[i].t = t /\ L[i].n = n}
The(S) == CHOOSE i \in S : TRUE

\* The log of the current run.
Log == IF run_id = None THEN <<>> ELSE logs[run_id]

\* The ordinals of the iteration.started events of a log, in log order.
StartedOrdinals(L) ==
  LET S == SelectSeq(L, LAMBDA e : e.t = "iteration.started")
  IN [i \in 1..Len(S) |-> S[i].n]

\* The events of the run loop among those passed to publish, in call order.
LoopPublished == SelectSeq(published, LAMBDA e : e.t \in LoopKinds)

\* C1: every completed iteration n has exactly one iteration.started{n},
\* prompt.sent{n}, response.received{n} and screenshot.captured{n} in the
\* log, in that order, all before any event of ordinal n+1.
C1_IterationEventsOnceInOrder ==
  \A n \in completed :
    LET a == Idx(Log, "iteration.started", n)
        b == Idx(Log, "prompt.sent", n)
        c == Idx(Log, "response.received", n)
        d == Idx(Log, "screenshot.captured", n)
    IN /\ Cardinality(a) = 1 /\ Cardinality(b) = 1
       /\ Cardinality(c) = 1 /\ Cardinality(d) = 1
       /\ The(a) < The(b) /\ The(b) < The(c) /\ The(c) < The(d)
       /\ \A j \in 1..Len(Log) : Log[j].n = n + 1 => j > The(d)

\* Iteration 1 completed and an event of ordinal 2 is in the log.
C1_Witness ==
  /\ 1 \in completed
  /\ \E j \in 1..Len(Log) : Log[j].n = 2

\* C2: the run-loop events passed to publish so far are a prefix of the
\* run's log: each was appended before it was published.
C2_LogBeforePublish ==
  /\ Len(LoopPublished) <= Len(Log)
  /\ \A i \in 1..Len(LoopPublished) : Log[i] = LoopPublished[i]

\* An event is in the log and not yet published, after earlier publishes.
C2_Witness ==
  /\ pc = "pub_sent"
  /\ Len(LoopPublished) >= 2
  /\ Len(Log) = Len(LoopPublished) + 1

\* C3 as stated: the ordinals of iteration.started in the run's log are
\* 1..iteration.
C3_OrdinalsEqualCounter ==
  StartedOrdinals(Log) = [i \in 1..iteration |-> i]

\* C3 amended: the ordinals of iteration.started in the run's log are 1..k
\* without gap or repetition, k being the counter, or the counter minus one
\* when the append of the latest iteration.started raised; no other log
\* holds an iteration.started.
C3_OrdinalsContiguous ==
  LET k == IF raised = [where |-> "log", ev |-> "iteration.started"]
           THEN iteration - 1 ELSE iteration
  IN /\ StartedOrdinals(Log) = [i \in 1..k |-> i]
     /\ \A r \in RunIds \ {run_id} : StartedOrdinals(logs[r]) = <<>>

\* Two iterations started; and the append of the second one's
\* iteration.started raised.
C3_Witness ==
  /\ iteration = 2
  /\ raised = [where |-> "log", ev |-> "iteration.started"]
  /\ StartedOrdinals(Log) = <<1>>

\* C4: closing the gate leaves the position of the loop, its locals and the
\* logs as they are; an iteration in flight while the gate is closed still
\* reaches its last publish unless one of its steps raises; and while the
\* gate is closed no iteration.started is appended.
C4_PauseSparesInFlight ==
  /\ [][(~paused /\ paused') => UNCHANGED <<pc, it, rid, iteration, logs>>]_vars
  /\ [][paused => \A r \in RunIds : StartedOrdinals(logs'[r]) = StartedOrdinals(logs[r])]_vars
  /\ \A n \in 1..MaxIter :
       (paused /\ pc \in InFlightPcs /\ it = n) ~> (n \in completed \/ pc = "raised")

\* The gate was closed while iteration 1 was in flight, and its
\* screenshot.captured has been appended all the same.
C4_Witness ==
  /\ paused /\ pc = "pub_shot" /\ it = 1
  /\ Last(Log) = ScreenshotCaptured(run_id, 1)

\* C5: every iteration.started appended to a log carries the ordinal that
\* follows the last one started, whatever pause() and resume() calls came
\* in between.
C5_ResumeContinuesOrdinals ==
  [][\A r \in RunIds :
       LET before == StartedOrdinals(logs[r])
           last == IF before = <<>> THEN 0 ELSE Last(before)
       IN StartedOrdinals(logs'[r]) # before
            => StartedOrdinals(logs'[r]) = Append(before, last + 1)]_vars

\* Iteration 2 has started after ticks spent paused since iteration 1 completed.
C5_Witness ==
  /\ pc = "pub_started" /\ it = 2
  /\ paused_ticks >= 1
  /\ StartedOrdinals(Log) = <<1, 2>>

\* C6: a tick taken while paused (the gate test, then the sleep) changes
\* neither the counter, the run id, the logs, the workspace and screenshots,
\* nor any subscriber queue.
C6_PausedTickChangesNothing ==
  [][((paused /\ pc = "loop" /\ pc' # pc) \/ (pc = "sleep" /\ pc' # pc))
       => /\ pc' = IF pc = "loop" THEN "sleep" ELSE "loop"
          /\ UNCHANGED <<iteration, run_id, logs, workspace, snaps,
                         bus_subs, bus_q, api_subs, api_q, published>>]_vars

\* Two ticks were taken while paused and the log holds run.started only.
C6_Witness ==
  /\ paused_ticks >= 2
  /\ run_id # None
  /\ Log = <<RunStarted(run_id)>>

\* A collaborator step of the iteration in flight raised.
StepFailed == raised.where \in {"patch", "screenshot"}

\* A collaborator step or a log append of the iteration in flight raised.
IterationFailed == StepFailed \/ (raised.where = "log" /\ raised.ev # "run.started")

\* C7 as stated: when a step of an iteration raised, the run's log holds
\* exactly one error event, whose where names the failing step.
C7_ErrorEventOnRaise ==
  StepFailed =>
    Cardinality({i \in 1..Len(logs[rid]) :
                   logs[rid][i].t = "error" /\ logs[rid][i].where = raised.where}) = 1

\* C8 as stated: after an iteration failed step_forever has not terminated.
C8_LoopSurvivesFailure ==
  IterationFailed => pc # "raised"

\* The event POST /api/control publishes for an action.
ControlEvent(a) == IF a = "pause" THEN ControlPaused ELSE ControlResumed

\* C9 as stated: the event of an accepted control command reaches the
\* queue of the registered control listener.
C9_CommandReachesListener ==
  [][(cmds' # cmds /\ "ctl" \in bus_subs)
       => bus_q'["ctl"] = Append(bus_q["ctl"], ControlEvent(Last(cmds')))]_vars

\* C10 as stated: an event the run loop publishes is enqueued for every
\* live-stream connection registered at that moment.
C10_LoopEventsReachLiveStream ==
  [][(published' # published /\ Last(published').t \in LoopKinds)
       => \A c \in api_subs : api_q'[c] = Append(api_q[c], Last(published'))]_vars

\* What subscribe() has yielded to an observer followed by what waits in its queue.
Stream(s) == bus_recv[s] \o bus_q[s]

\* The observers that are registered.
Watching == bus_subs \cap Observers

\* A sequence without its first k elements.
Drop(q, k) == SubSeq(q, k + 1, Len(q))

\* C11: a registered subscriber has been handed, or holds in its queue,
\* every event published since it registered, each once and in publish
\* order, the oldest first.
C11_EveryEventOnceInOrder ==
  \A s \in Watching : Stream(s) = Drop(published, bus_since[s])

\* An observer that registered after the first publish has consumed two
\* events and has more waiting.
C11_Witness ==
  \E s \in Watching :
    /\ bus_since[s] >= 1
    /\ Len(bus_recv[s]) >= 2
    /\ Len(bus_q[s]) >= 2

\* C12: the queue of a subscriber is empty when it registers, and nothing
\* published before the registration is ever handed to it or queued for it.
C12_NoReplay ==
  /\ [][\A s \in Observers : (s \notin bus_subs /\ s \in bus_subs') => bus_q'[s] = <<>>]_vars
  /\ [](\A s \in Watching : \A i \in 1..bus_since[s] : ~InSeq(published[i], Stream(s)))

\* An observer registered after three publishes and has received later events.
C12_Witness ==
  \E s \in Watching :
    /\ bus_since[s] >= 3
    /\ Len(bus_recv[s]) >= 1

\* The positions at which step_forever awaits publish.
LoopPubPcs == {"pub_started", "pub_sent", "pub_recv", "pub_shot"}

\* C13: every publish of the run loop returns and the loop moves on,
\* whatever the backlog of the subscribers and even when none of them ever
\* consumes.
C13_PublishNeverWaits ==
  \A p \in LoopPubPcs : (pc = p) ~> (pc # p)

\* Two observers hold a backlog of three events, have consumed nothing,
\* and the loop is past its third publish.
C13_Witness ==
  /\ pc = "patch"
  /\ \A s \in Observers : s \in bus_subs /\ bus_recv[s] = <<>> /\ Len(bus_q[s]) >= 3

ApiStream(c) == api_recv[c] \o api_q[c]

\* C15: on a live-stream connection the hello bootstrap is the first event
\* delivered and is delivered once; every event published while the
\* connection is registered is added once behind what the connection already
\* holds, and forwarding to a connected client loses nothing; no run log
\* contains a hello event.
C15_HelloFirstOnce ==
  /\ [](\A c \in api_subs :
          /\ api_recv[c] # <<>>
          /\ Head(api_recv[c]) = Hello
          /\ ~InSeq(Hello, Tail(ApiStream(c))))
  /\ [](\A r \in RunIds : ~InSeq(Hello, logs[r]))
  /\ [][\A c \in ApiConns :
          (c \in api_subs /\ c \in api_subs') =>
             IF cmds' # cmds
               THEN api_recv'[c] \o api_q'[c] = Append(ApiStream(c), ControlEvent(Last(cmds')))
               ELSE api_recv'[c] \o api_q'[c] = ApiStream(c)]_vars

\* A connection has delivered hello and then a control event to its client
\* while the run's log has events.
C15_Witness ==
  \E c \in api_subs :
    /\ api_client[c]
    /\ Len(api_recv[c]) = 2
    /\ api_recv[c][2].t \in {"control.paused", "control.resumed"}
    /\ Len(Log) >= 2

\* C16 as stated: once the client of a live-stream connection has
\* disconnected, no publish enqueues anything into the connection's queue.
C16_NoEnqueueAfterDisconnect ==
  [][\A c \in ApiConns :
       (c \in api_subs /\ ~api_client[c]) => Len(api_q'[c]) <= Len(api_q[c])]_vars

\* The events held by the live-stream connections, the hello bootstrap aside.
ApiDelivered ==
  UNION {{ApiStream(c)[i] : i \in 1..Len(ApiStream(c))} : c \in api_subs} \ {Hello}

\* C17 as stated: every event passed to a publish, other than the hello
\* bootstrap, is in the log of a run.
C17_PublishedIsLogged ==
  \A e \in ApiDelivered \cup {published[i] : i \in 1..Len(published)} :
    \E r \in RunIds : InSeq(e, logs[r])

\* C18 as stated: whenever no publish of the loop is pending, an observer
\* registered before start() published anything has been handed, or holds
\* in its queue, exactly the sequence of the run's log.
C18_ObserverSeesLog ==
  \A s \in Watching :
    (bus_since[s] = 0 /\ pc \notin {"start_pub"} \cup LoopPubPcs) => Stream(s) = Log

\* C19 as stated: in the state right after start() has appended run.started
\* the loop is paused.
C19_PausedAfterStart ==
  [][(pc = "created" /\ pc' = "start_pub") => paused']_vars

\* C20 as stated: a step of start() that appends run.started leaves the
\* counter at 0 and a run identifier that no earlier run had.
C20_StartResetsCounterFreshId ==
  [][StartsLogged' > StartsLogged => (iteration' = 0 /\ logs[run_id'] = <<>>)]_vars

\* start() has returned: a run identifier is set and its run.started append
\* did not raise.
RunBegun == run_id # None /\ ~(raised.where = "log" /\ raised.ev = "run.started")

\* C21: once start() has appended, and whatever ticks, pause() and resume()
\* followed, the run's log holds exactly one run.started event, that event
\* carries the run's identifier and is the first entry of the log.
C21_OneRunStartedFirst ==
  RunBegun =>
    /\ Log # <<>>
    /\ Head(Log).t = "run.started" /\ Head(Log).run_id = run_id
    /\ Cardinality({i \in 1..Len(Log) : Log[i].t = "run.started"}) = 1

\* The loop was paused after a completed iteration and has ticked while paused.
C21_Witness ==
  /\ RunBegun /\ paused /\ completed # {} /\ paused_ticks >= 1
  /\ Len(Log) >= 5

\* C22: step_forever on a loop without a run identifier raises at once: the
\* counter is still 0, no log has an entry and nothing was published,
\* whatever the pause flag; the loop body is never reached without a run
\* identifier.
C22_TickBeforeStartFailsFast ==
  /\ raised.where = "assert" =>
        /\ pc = "raised" /\ run_id = None /\ iteration = 0
        /\ \A r \in RunIds : logs[r] = <<>>
        /\ published = <<>>
        /\ \A s \in DOMAIN bus_q : bus_q[s] = <<>>
  /\ pc \in {"loop", "sleep"} \cup InFlightPcs => run_id # None

\* step_forever was called before start() on a loop that had been resumed.
C22_Witness == raised.where = "assert" /\ pc = "raised" /\ ~paused

\* What pause() and resume() must leave alone.
C23_Rest == <<iteration, run_id, pc, it, rid, raised, diskVars, busVars, published>>

\* C23: pause() leaves the loop paused and resume() leaves it running, each
\* changes nothing but the pause flag, and a second call in a row changes
\* nothing at all.
C23_PauseResumeIdempotent ==
  /\ [][Pause => (paused' /\ UNCHANGED C23_Rest)]_vars
  /\ [][Resume => (~paused' /\ UNCHANGED C23_Rest)]_vars
  /\ [][(Pause /\ paused) => UNCHANGED vars]_vars
  /\ [][(Resume /\ ~paused) => UNCHANGED vars]_vars

\* pause() has closed the gate of a loop that had run an iteration.
C23_Witness == paused /\ iteration >= 1 /\ pc = "loop" /\ Len(Log) >= 5

\* The control listener takes the event at the head of its queue.
ListenerDequeues ==
  /\ "ctl" \in bus_subs /\ bus_q["ctl"] # <<>>
  /\ bus_q'["ctl"] = Tail(bus_q["ctl"])

\* C24: when the control listener dequeues control.pause or control.paused
\* the loop is paused afterwards, when it dequeues control.resume or
\* control.resumed the loop is running afterwards, and any other kind
\* leaves the flag as it was; the flag changes in no other step than
\* these and a direct resume() call.
C24_ListenerFollowsControl ==
  /\ [][ListenerDequeues =>
          LET t == Head(bus_q["ctl"]).t IN
            /\ t \in {"control.pause", "control.paused"} => paused'
            /\ t \in {"control.resume", "control.resumed"} => ~paused'
            /\ t \notin ControlKinds => paused' = paused]_vars
  /\ [][paused' # paused =>
          \/ ListenerDequeues /\ Head(bus_q["ctl"]).t \in ControlKinds
          \/ EngineTaskResume]_vars

\* The listener has paused a loop that had started an iteration, and has
\* emptied its queue.
C24_Witness ==
  /\ paused /\ iteration >= 1
  /\ "ctl" \in bus_subs /\ bus_q["ctl"] = <<>>
  /\ \E i \in 1..Len(published) : published[i].t = "control.paused"

\* The number of markers of ordinal n in a workspace file.
Markers(w, n) == Cardinality({i \in 1..Len(w) : w[i] = n})

\* C25: once the patch of ordinal n has been applied to a run's workspace
\* file, with any other patches of the run before or after it, applying it
\* again leaves the file as it is and the file holds the marker of n once;
\* from any file, patching n twice, with or without another ordinal's
\* patch in between, gives the same file as patching n once.
C25_PatchIdempotent ==
  \A r \in RunIds : \A n \in 1..MaxOrdinal :
    LET w == workspace[r] IN
      /\ InSeq(n, w) => deterministic_patch(w, n) = w /\ Markers(w, n) = 1
      /\ deterministic_patch(deterministic_patch(w, n), n) = deterministic_patch(w, n)
      /\ \A m \in 1..MaxOrdinal :
           deterministic_patch(deterministic_patch(deterministic_patch(w, n), m), n)
             = deterministic_patch(deterministic_patch(w, n), m)

\* Every ordinal's patch has been applied to a run's file, not in
\* ascending order.
C25_Witness ==
  \E r \in RunIds :
    /\ Len(workspace[r]) = MaxOrdinal + 1
    /\ workspace[r][2] > workspace[r][3]

\* C26 as stated: an event published once the run has started, on the
\* engine bus or to the live-stream connections, carries the run's identifier.
C26_EventsCarryRunId ==
  [][RunBegun =>
       /\ Len(published') > Len(published) => Last(published').run_id = run_id
       /\ \A c \in api_subs :
            Len(api_q'[c]) > Len(api_q[c]) => Last(api_q'[c]).run_id = run_id]_vars

\* _retry has returned or an exception has left it.
RetryDone == r_pc \in {"returned", "raised"}

\* The transient conditions: rate limit, timeout, any 5xx status, network
\* or timeout error.
Transient(o) ==
  \/ o.cls \in {"RateLimitError", "APITimeoutError", "APIConnectionError"}
  \/ o.cls = "APIStatusError" /\ (o.code \in {408, 429} \/ o.code >= 500)

\* C27 as stated: after an attempt that failed with a transient condition
\* while attempts remain, _retry is backing off or calling again; and when
\* it returns, it returns the result of the first attempt that succeeded.
C27_TransientIsRetried ==
  /\ (r_hist # <<>> /\ Transient(Last(r_hist)) /\ Len(r_hist) < r_max)
        => r_pc \in {"sleep", "call"}
  /\ r_pc = "returned" =>
        /\ r_out = Returned /\ Last(r_hist) = Returned
        /\ \A k \in 1..(Len(r_hist) - 1) : r_hist[k] # Returned

\* The terminal errors: status 402 and the other statuses that are not
\* transient.
Terminal(o) == o.cls = "APIStatusError" /\ ~Transient(o)

\* C28: an attempt that failed with a terminal error is the last attempt:
\* the error left _retry at once, with no backoff after it and no further
\* call, on whichever attempt it occurred.
C28_TerminalNotRetried ==
  \A k \in 1..Len(r_hist) :
    Terminal(r_hist[k]) =>
      /\ k = Len(r_hist)
      /\ r_pc = "raised" /\ r_out = r_hist[k]
      /\ Len(r_sleeps) = k - 1

\* Status 402 on the last of MaxTries attempts, after transient failures.
C28_Witness ==
  /\ r_pc = "raised" /\ Len(r_hist) = MaxTries
  /\ Last(r_hist) = [cls |-> "APIStatusError", code |-> 402]

\* C29: _retry makes at most max_tries calls and ends; when every one of
\* max_tries attempts failed it raises the error of the last attempt; it
\* never ends without a returned result or a raised error, and it has
\* slept once between consecutive attempts and not after the last.
C29_BoundedAttempts ==
  /\ [](/\ Len(r_hist) <= r_max
        /\ r_sleeps = [k \in 1..Len(r_sleeps) |-> k - 1]
        /\ RetryDone =>
              /\ Len(r_sleeps) = Len(r_hist) - 1
              /\ r_out = Last(r_hist)
              /\ r_pc = "raised" <=> r_out # Returned
        /\ (Len(r_hist) = r_max /\ r_hist # <<>> /\ Last(r_hist) # Returned)
              => r_pc = "raised" /\ r_out = Last(r_hist))
  /\ (r_pc = "call") ~> RetryDone

\* Every one of MaxTries attempts failed with a condition _retry backs off
\* for, and the last error was raised.
C29_Witness ==
  /\ r_pc = "raised" /\ r_max = MaxTries /\ Len(r_hist) = MaxTries
  /\ \A k \in 1..Len(r_hist) : Backoff(r_hist[k])
  /\ Len(r_sleeps) = MaxTries - 1

\* C30: whenever the loop is at its gate and not paused, then for every
\* ordinal n iteration.started{n} gets into the log, unless the loop is
\* paused again or a step raises; and step_forever is left by an exception
\* only, never by a return.
C30_IterationsKeepStarting ==
  /\ \A n \in 1..MaxIter :
       (pc = "loop" /\ ~paused)
         ~> (InSeq(IterationStarted(run_id, n), Log) \/ paused \/ pc = "raised")
  /\ [](pc \in {"created", "start_pub", "started", "et_pub", "enter", "loop", "sleep", "raised"}
           \cup InFlightPcs)
  /\ [](pc = "raised" => raised # NoError)

\* The running loop has logged iteration.started for every ordinal up to
\* MaxIter and sleeps before the next tick.
C30_Witness ==
  /\ pc = "sleep" /\ ~paused /\ iteration = MaxIter
  /\ \A n \in 1..MaxIter : InSeq(IterationStarted(run_id, n), Log)
  /\ completed = 1..MaxIter

\* C31: capture of ordinal n begins only when the workspace holds the
\* marker of n; screenshot.captured{n} is in the log only when the capture
\* of n has written its file; and iteration.started is appended only at
\* the gate, after the previous ordinal ran to its last publish.
C31_StepsSequential ==
  /\ [](pc \in {"capture", "log_shot", "pub_shot"} => InSeq(it, workspace[rid]))
  /\ [](\A r \in RunIds : \A n \in 1..MaxIter :
          InSeq(ScreenshotCaptured(r, n), logs[r]) => <<r, n>> \in snaps)
  /\ [][Len(StartedOrdinals(Log')) > Len(StartedOrdinals(Log)) =>
          /\ pc = "loop"
          /\ iteration = 0 \/ iteration \in completed]_vars

\* The second iteration has patched, captured and logged its screenshot.
C31_Witness ==
  /\ pc = "pub_shot" /\ it = 2
  /\ InSeq(2, workspace[rid]) /\ <<rid, 2>> \in snaps
  /\ Last(Log) = ScreenshotCaptured(rid, 2)

\* The prompt.sent events of a sequence of events.
PromptsSent(q) == SelectSeq(q, LAMBDA e : e.t = "prompt.sent")

\* C32: a step in which the command endpoint accepts a prompt command
\* changes nothing of the loop, the logs, the workspace, the engine bus or
\* the live-stream queues, and every prompt.sent logged or published has
\* the routing target code.
C32_PromptHasNoEffect ==
  /\ [][prompts' # prompts =>
          UNCHANGED <<loopVars, diskVars, busVars, apiVars, histVars>>]_vars
  /\ [](\A r \in RunIds : \A i \in 1..Len(PromptsSent(logs[r])) :
          PromptsSent(logs[r])[i].to = "code")
  /\ [](\A i \in 1..Len(PromptsSent(published)) : PromptsSent(published)[i].to = "code")

\* Prompt commands routed to vision were accepted, a live-stream
\* connection is open, and the loop has logged and published the
\* prompt.sent of its last ordinal.
C32_Witness ==
  /\ prompts = [i \in 1..MaxPrompts |-> "vision"]
  /\ api_subs # {}
  /\ Len(PromptsSent(Log)) = MaxIter /\ Len(PromptsSent(published)) = MaxIter

\* The event whose log append raised: its kind is raised.ev, its ordinal
\* that of the iteration in flight (0 for run.started).
IsFailedEvent(e) ==
  /\ e.t = raised.ev
  /\ e.n = IF raised.ev = "run.started" THEN 0 ELSE it

\* C33: when the log append of an event raised, the exception left the
\* loop, the event was not passed to publish and is in no subscriber's
\* queue, and nothing is logged or published afterwards.
C33_FailedAppendNotPublished ==
  /\ [](raised.where = "log" =>
          /\ pc = "raised"
          /\ \A i \in 1..Len(published) : ~IsFailedEvent(published[i])
          /\ \A s \in DOMAIN bus_q : \A i \in 1..Len(bus_q[s]) : ~IsFailedEvent(bus_q[s][i]))
  /\ [][raised.where = "log" => (published' = published /\ logs' = logs)]_vars

\* The append of screenshot.captured{2} raised while the control listener
\* was subscribed and earlier events had been published.
C33_Witness ==
  /\ raised.where = "log" /\ raised.ev = "screenshot.captured" /\ it = 2
  /\ "ctl" \in bus_subs
  /\ Len(published) >= 7

\* C34: when the capture of ordinal n raised, the workspace still holds
\* the marker of n; and a run's workspace file is the initial page followed
\* by the markers 1..k, each once, in ascending order, with every
\* completed ordinal among them.
C34_NoRollback ==
  /\ raised.where = "screenshot" => InSeq(it, workspace[rid])
  /\ \A r \in RunIds : workspace[r] = [i \in 1..Len(workspace[r]) |-> i - 1]
  /\ \A n \in completed : InSeq(n, workspace[run_id])

\* The capture of the second iteration raised after both patches.
C34_Witness ==
  /\ raised.where = "screenshot" /\ it = 2
  /\ workspace[rid] = <<0, 1, 2>>
  /\ completed = {1}

\* The history without its leading system message.
Turns == IF c_messages # <<>> /\ c_messages[1].role = "system" THEN Tail(c_messages) ELSE c_messages

\* C35 as stated: after any sequence of set_system, reset and ask calls,
\* those whose request raised included, the history holds no system message
\* after index 0, and after it user and assistant messages alternate,
\* starting with a user message.
C35_HistoryAlternates ==
  c_pc = "idle" =>
    \A i \in 1..Len(Turns) : Turns[i].role = IF i % 2 = 1 THEN "user" ELSE "assistant"

====
